---- MODULE Spec2Model ----
(***************************************************************************)
(* Model of collector/sip_collector.go: the SIP collector of the Asterisk  *)
(* exporter.  Describe pushes the owned descriptors, Collect queries the   *)
(* command runner and pushes a health sample followed by the domain        *)
(* samples into the sink channel it is handed.                             *)
(*                                                                         *)
(* A pointer is a sequence of length at most one: Nil is <<>>, Ptr(x) is   *)
(* <<x>>.  Every `ch <- m` of Collect is one step of the model, so that    *)
(* concurrent invocations interleave exactly where goroutines can.         *)
(* The level.Debug / level.Error calls write to the injected logger only;  *)
(* they touch neither the collector nor the sink and are left out.         *)
(***************************************************************************)
EXTENDS Naturals, Sequences, FiniteSets, TLC

(* ---------------------------- bounds ---------------------------------- *)

\* longest IndividualPeers list the data source hands back
MaxPeers == 2
\* longest IndividualRegistrations list the data source hands back
MaxRegs == 1
\* Collect calls per run (caps the command runner's call counter)
MaxScrapes == 2
\* capacity of the sink channel handed to Collect
SinkCap == 1
\* number of Collect invocations that may run at the same time
MaxConc == 2

(* ---------------------------- pointers -------------------------------- *)

Nil == <<>>
Ptr(x) == <<x>>
Deref(p) == p[1]

Procs == 1..MaxConc

(* ------------------------- prometheus helpers ------------------------- *)

\* prometheus.BuildFQName: the non-empty parts joined by "_"
BuildFQName(namespace, subsystem, name) ==
    IF name = "" THEN ""
    ELSE IF namespace # "" /\ subsystem # "" THEN namespace \o "_" \o subsystem \o "_" \o name
    ELSE IF namespace # "" THEN namespace \o "_" \o name
    ELSE IF subsystem # "" THEN subsystem \o "_" \o name
    ELSE name

\* prometheus.NewDesc(fqName, help, variableLabels, nil)
NewDesc(fqName, help, variableLabels) ==
    [fqName |-> fqName, help |-> help, variableLabels |-> variableLabels]

\* the outcome of a statement that panics instead of sending
Panic == [panic |-> TRUE]

\* prometheus.MustNewConstMetric(desc, GaugeValue, value, labelValues...):
\* panics when the label values do not match the descriptor's label names
MustNewConstMetric(desc, value, labelValues) ==
    IF Len(labelValues) # Len(desc.variableLabels) THEN Panic
    ELSE [panic |-> FALSE, desc |-> desc, valueType |-> "gauge",
          value |-> value, labelValues |-> labelValues]

(* --------------------------- construction ----------------------------- *)

\* the health descriptor the exporter shares between its collectors
CollectorErrorDesc(prefix) ==
    NewDesc(BuildFQName(prefix, "exporter", "collector_error"),
            "Whether the collector failed", <<"collector">>)

\* the peer_status descriptor with its label names dropped
PeerStatusDescNoLabels(prefix) ==
    NewDesc(BuildFQName(prefix, "sip", "peer_status"),
            "Status of individual SIP peers", <<>>)

PeerStatusDesc(prefix) ==
    NewDesc(BuildFQName(prefix, "sip", "peer_status"),
            "Status of individual SIP peers", <<"peer_name", "peer_status">>)

NewSipCollector(prefix, cmdRunner, logger, collectorError) ==
    [cmdRunner |-> cmdRunner,
     logger |-> logger,
     collectorError |-> collectorError,
     totalPeers |-> NewDesc(BuildFQName(prefix, "sip", "current_peers"),
                            "Number of SIP peers", <<>>),
     totalMonitoredOnline |-> NewDesc(BuildFQName(prefix, "sip", "current_monitored_online"),
                            "Number of currently monitored online SIP", <<>>),
     totalMonitoredOffline |-> NewDesc(BuildFQName(prefix, "sip", "current_monitored_offline"),
                            "Number of currently monitored offline SIP", <<>>),
     totalUnmonitoredOnline |-> NewDesc(BuildFQName(prefix, "sip", "current_unmonitored_online"),
                            "Number of currently unmonitored online SIP", <<>>),
     totalUnmonitoredOffline |-> NewDesc(BuildFQName(prefix, "sip", "current_unmonitored_offline"),
                            "Number of currently unmonitored offline SIP", <<>>),
     totalSipStatusUnknown |-> NewDesc(BuildFQName(prefix, "sip", "current_unknown"),
                            "Current number of unknown SIP", <<>>),
     totalSipStatusQualified |-> NewDesc(BuildFQName(prefix, "sip", "current_qualified"),
                            "Current number of qualified SIP", <<>>),
     peerStatus |-> PeerStatusDesc(prefix),
     dialogsActive |-> NewDesc(BuildFQName(prefix, "sip", "active_dialogs"),
                            "Number of active SIP dialogs", <<>>),
     subscriptionsActive |-> NewDesc(BuildFQName(prefix, "sip", "active_subscriptions"),
                            "Number of active SIP subscriptions", <<>>),
     channelsActive |-> NewDesc(BuildFQName(prefix, "sip", "active_channels"),
                            "Number of active SIP channels", <<>>),
     users |-> NewDesc(BuildFQName(prefix, "sip", "users"),
                            "Number of users", <<>>),
     totalRegistrations |-> NewDesc(BuildFQName(prefix, "sip", "total_registrations"),
                            "Total number of SIP registrations", <<>>),
     onlineRegistrationsCount |-> NewDesc(BuildFQName(prefix, "sip", "registered_count"),
                            "Number of successfully registered SIP accounts", <<>>),
     offlineRegistrationsCount |-> NewDesc(BuildFQName(prefix, "sip", "unregistered_count"),
                            "Number of unregistered SIP accounts", <<>>),
     registrationStatus |-> NewDesc(BuildFQName(prefix, "sip", "registration_status"),
                            "Status of individual SIP registrations", <<"username", "state">>)]

Name == "sip"

\* float64(n) of a non-negative count: exact for every count below 2^53
Float64(n) == n

(* ---------------------------- data source ----------------------------- *)

\* all sequences over S of length at most n
RECURSIVE SeqsUpTo(_, _)
SeqsUpTo(S, n) ==
    IF n = 0 THEN {<<>>}
    ELSE LET shorter == SeqsUpTo(S, n - 1)
         IN  shorter \cup {Append(q, x) : q \in {r \in shorter : Len(r) = n - 1}, x \in S}

PeerRecords == {[Name |-> "alice", Status |-> "OK"], [Name |-> "bob", Status |-> "UNKNOWN"]}
RegistrationRecords == {[Username |-> "trunk1", State |-> "Registered"],
                        [Username |-> "trunk2", State |-> "Rejected"]}

\* what cmd.CmdRunner.PeersInfo can return: nil when the query failed, the
\* fragment of a server without peers, or counts with a list of peers
PeersInfoResults ==
    {Nil,
     Ptr([MonitoredOnline |-> 0, MonitoredOffline |-> 0, UnmonitoredOnline |-> 0,
          UnmonitoredOffline |-> 0, PeersStatusUnknown |-> 0, PeersStatusQualified |-> 0,
          IndividualPeers |-> <<>>])} \cup
    {Ptr([MonitoredOnline |-> 3, MonitoredOffline |-> 1, UnmonitoredOnline |-> 4,
          UnmonitoredOffline |-> 5, PeersStatusUnknown |-> 6, PeersStatusQualified |-> 2,
          IndividualPeers |-> l]) : l \in SeqsUpTo(PeerRecords, MaxPeers)}

\* what cmd.CmdRunner.SipChannelsInfo can return
SipChannelsInfoResults ==
    {Nil,
     Ptr([ActiveSipDialogs |-> 7, ActiveSipSubscriptions |-> 8, ActiveSipChannels |-> 9])}

\* what cmd.CmdRunner.UsersInfo can return
UsersInfoResults == {Nil, Ptr([Users |-> 10])}

\* what cmd.CmdRunner.RegistriesInfo can return
RegistriesInfoResults ==
    {Nil,
     Ptr([TotalRegistrations |-> 0, OnlineRegistrations |-> 0, OfflineRegistrations |-> 0,
          IndividualRegistrations |-> <<>>])} \cup
    {Ptr([TotalRegistrations |-> 13, OnlineRegistrations |-> 11, OfflineRegistrations |-> 12,
          IndividualRegistrations |-> l]) : l \in SeqsUpTo(RegistrationRecords, MaxRegs)}

\* the answers of the four queries of one scrape
QueryResults ==
    [PeersInfo : PeersInfoResults, SipChannelsInfo : SipChannelsInfoResults,
     UsersInfo : UsersInfoResults, RegistriesInfo : RegistriesInfoResults]

\* the answers used when several invocations run at once
ConcQueryResults ==
    {q \in QueryResults :
        /\ q.PeersInfo # Nil
        /\ Deref(q.PeersInfo).MonitoredOnline = 3
        /\ Deref(q.PeersInfo).IndividualPeers = <<[Name |-> "alice", Status |-> "OK"]>>
        /\ q.UsersInfo # Nil
        /\ q.RegistriesInfo # Nil
        /\ Deref(q.RegistriesInfo).TotalRegistrations = 13
        /\ Deref(q.RegistriesInfo).IndividualRegistrations = <<>>}

\* a query failed when it handed back no fragment
Failed(q) ==
    {f \in {"PeersInfo", "SipChannelsInfo", "UsersInfo", "RegistriesInfo"} : q[f] = Nil}

(* ------------------------------ Collect ------------------------------- *)

\* collectSipMetrics given the four answers: the snapshot and the error
collectSipMetrics(q) ==
    [metrics |-> Ptr([PeersInfo |-> q.PeersInfo, SipChannelsInfo |-> q.SipChannelsInfo,
                      UsersInfo |-> q.UsersInfo, RegistriesInfo |-> q.RegistriesInfo]),
     err |-> Nil]

\* the per-peer samples with the value 0 instead of 1
peerStatusSamplesZero(c, peers) ==
    [i \in 1..Len(peers) |->
        MustNewConstMetric(c.peerStatus, 0, <<peers[i].Name, peers[i].Status>>)]

\* the loop over values.PeersInfo.IndividualPeers
peerStatusSamples(c, peers) ==
    [i \in 1..Len(peers) |->
        MustNewConstMetric(c.peerStatus, 1, <<peers[i].Name, peers[i].Status>>)]

\* the loop over values.RegistriesInfo.IndividualRegistrations
registrationStatusSamples(c, regs) ==
    [i \in 1..Len(regs) |->
        MustNewConstMetric(c.registrationStatus, 1, <<regs[i].Username, regs[i].State>>)]

\* updateMetrics: the statements in program order, each a sample to send or a
\* panic (a nil fragment dereferenced, or MustNewConstMetric refusing the labels)
updateMetrics(c, values) ==
    LET peers ==
            IF values.PeersInfo = Nil THEN <<Panic>>
            ELSE LET p == Deref(values.PeersInfo)
                 IN  <<MustNewConstMetric(c.totalMonitoredOnline, Float64(p.MonitoredOnline), <<>>),
                       MustNewConstMetric(c.totalMonitoredOffline, Float64(p.MonitoredOffline), <<>>),
                       MustNewConstMetric(c.totalUnmonitoredOnline, Float64(p.UnmonitoredOnline), <<>>),
                       MustNewConstMetric(c.totalUnmonitoredOffline, Float64(p.UnmonitoredOffline), <<>>),
                       MustNewConstMetric(c.totalSipStatusUnknown, Float64(p.PeersStatusUnknown), <<>>),
                       MustNewConstMetric(c.totalSipStatusQualified, Float64(p.PeersStatusQualified), <<>>)>>
                     \o peerStatusSamples(c, p.IndividualPeers)
        channels ==
            IF values.SipChannelsInfo = Nil THEN <<Panic>>
            ELSE LET s == Deref(values.SipChannelsInfo)
                 IN  <<MustNewConstMetric(c.dialogsActive, Float64(s.ActiveSipDialogs), <<>>),
                       MustNewConstMetric(c.subscriptionsActive, Float64(s.ActiveSipSubscriptions), <<>>),
                       MustNewConstMetric(c.channelsActive, Float64(s.ActiveSipChannels), <<>>)>>
        users ==
            IF values.UsersInfo = Nil THEN <<Panic>>
            ELSE <<MustNewConstMetric(c.users, Float64(Deref(values.UsersInfo).Users), <<>>)>>
        registries ==
            IF values.RegistriesInfo = Nil THEN <<Panic>>
            ELSE LET r == Deref(values.RegistriesInfo)
                 IN  <<MustNewConstMetric(c.totalRegistrations, Float64(r.TotalRegistrations), <<>>),
                       MustNewConstMetric(c.onlineRegistrationsCount, Float64(r.OnlineRegistrations), <<>>),
                       MustNewConstMetric(c.offlineRegistrationsCount, Float64(r.OfflineRegistrations), <<>>)>>
                     \o registrationStatusSamples(c, r.IndividualRegistrations)
    IN  peers \o channels \o users \o registries

\* Collect with the health sample pushed after the domain samples
CollectHealthLast(c, r) ==
    IF r.err # Nil
    THEN <<MustNewConstMetric(c.collectorError, 1, <<Name>>)>>
    ELSE updateMetrics(c, Deref(r.metrics))
         \o <<MustNewConstMetric(c.collectorError, 0, <<Name>>)>>

\* Collect with the health value of the failure path on both paths
CollectHealthOne(c, r) ==
    IF r.err # Nil
    THEN <<MustNewConstMetric(c.collectorError, 1, <<Name>>)>>
    ELSE <<MustNewConstMetric(c.collectorError, 1, <<Name>>)>>
         \o updateMetrics(c, Deref(r.metrics))

\* Collect after collectSipMetrics returned r: the statements in program order
Collect(c, r) ==
    IF r.err # Nil
    THEN <<MustNewConstMetric(c.collectorError, 1, <<Name>>)>>
    ELSE <<MustNewConstMetric(c.collectorError, 0, <<Name>>)>>
         \o updateMetrics(c, Deref(r.metrics))

(* ------------------------------ Describe ------------------------------ *)

\* Describe without the first descriptor
DescribeSkipFirst(c) ==
    <<c.totalMonitoredOnline, c.totalMonitoredOffline,
      c.totalUnmonitoredOnline, c.totalUnmonitoredOffline, c.totalSipStatusUnknown,
      c.totalSipStatusQualified, c.peerStatus, c.dialogsActive, c.subscriptionsActive,
      c.channelsActive, c.users, c.totalRegistrations, c.onlineRegistrationsCount,
      c.offlineRegistrationsCount, c.registrationStatus>>

\* the descriptors Describe pushes, in program order
DescribeSends(c) ==
    <<c.totalPeers, c.totalMonitoredOnline, c.totalMonitoredOffline,
      c.totalUnmonitoredOnline, c.totalUnmonitoredOffline, c.totalSipStatusUnknown,
      c.totalSipStatusQualified, c.peerStatus, c.dialogsActive, c.subscriptionsActive,
      c.channelsActive, c.users, c.totalRegistrations, c.onlineRegistrationsCount,
      c.offlineRegistrationsCount, c.registrationStatus>>

(* --------------------------- state machine ---------------------------- *)

VARIABLES
    c,          \* the sipCollector built by NewSipCollector
    pc,         \* per invocation: "idle", "running", "done" or "panicked"
    res,        \* per invocation: what collectSipMetrics returned (metrics, err)
    todo,       \* per invocation: the statements of Collect still to execute
    ch,         \* the sink channel: samples sent and not yet received
    received,   \* per invocation: its samples the registry has received, in order
    described,  \* what the latest Describe call pushed
    cmdRuns     \* number of queries the command runner has served

vars == <<c, pc, res, todo, ch, received, described, cmdRuns>>

Prefixes == {"asterisk", ""}

NoResult == [metrics |-> Nil, err |-> Nil]

Init ==
    /\ \E prefix \in Prefixes :
          c = NewSipCollector(prefix, "cmdRunner", "logger", CollectorErrorDesc(prefix))
    /\ pc = [p \in Procs |-> "idle"]
    /\ res = [p \in Procs |-> NoResult]
    /\ todo = [p \in Procs |-> <<>>]
    /\ ch = <<>>
    /\ received = [p \in Procs |-> <<>>]
    /\ described = <<>>
    /\ cmdRuns = 0

\* Describe, start to end: sixteen sends to the descriptor channel
Describe ==
    /\ described' = DescribeSends(c)
    /\ UNCHANGED <<c, pc, res, todo, ch, received, cmdRuns>>

\* Collect up to its first send: the four queries answer q
CollectCall(p, q) ==
    /\ pc[p] = "idle"
    /\ cmdRuns + 4 <= 4 * MaxScrapes
    /\ LET r == collectSipMetrics(q)
       IN  /\ res' = [res EXCEPT ![p] = r]
           /\ todo' = [todo EXCEPT ![p] = Collect(c, r)]
    /\ cmdRuns' = cmdRuns + 4
    /\ pc' = [pc EXCEPT ![p] = "running"]
    /\ UNCHANGED <<c, ch, received, described>>

\* the next `ch <- m` of Collect or updateMetrics; blocks while the channel is full
Send(p) ==
    /\ pc[p] = "running"
    /\ todo[p] # <<>>
    /\ ~Head(todo[p]).panic
    /\ Len(ch) < SinkCap
    /\ ch' = Append(ch, [inv |-> p, m |-> Head(todo[p])])
    /\ todo' = [todo EXCEPT ![p] = Tail(todo[p])]
    /\ UNCHANGED <<c, pc, res, received, described, cmdRuns>>

\* the next statement panics: the invocation ends without returning.  Whether
\* the caller recovers is its business; a process that dies takes no further
\* step, so its behaviours are prefixes of the ones kept here.
PanicStep(p) ==
    /\ pc[p] = "running"
    /\ todo[p] # <<>>
    /\ Head(todo[p]).panic
    /\ pc' = [pc EXCEPT ![p] = "panicked"]
    /\ todo' = [todo EXCEPT ![p] = <<>>]
    /\ UNCHANGED <<c, res, ch, received, described, cmdRuns>>

\* Collect returns
Return(p) ==
    /\ pc[p] = "running"
    /\ todo[p] = <<>>
    /\ pc' = [pc EXCEPT ![p] = "done"]
    /\ UNCHANGED <<c, res, todo, ch, received, described, cmdRuns>>

\* the registry takes the oldest sample out of the channel
Receive ==
    /\ ch # <<>>
    /\ received' = [received EXCEPT ![Head(ch).inv] = Append(@, Head(ch).m)]
    /\ ch' = Tail(ch)
    /\ UNCHANGED <<c, pc, res, todo, described, cmdRuns>>

\* the scrape that invocation p served is over: its snapshot and samples are dropped
Gathered(p) ==
    /\ pc[p] \in {"done", "panicked"}
    /\ \A i \in 1..Len(ch) : ch[i].inv # p
    /\ pc' = [pc EXCEPT ![p] = "idle"]
    /\ res' = [res EXCEPT ![p] = NoResult]
    /\ received' = [received EXCEPT ![p] = <<>>]
    /\ UNCHANGED <<c, todo, ch, described, cmdRuns>>

\* one Collect at a time, every answer the queries can give
Next ==
    \/ Describe
    \/ Receive
    \/ \E q \in QueryResults : CollectCall(1, q)
    \/ Send(1)
    \/ PanicStep(1)
    \/ Return(1)
    \/ Gathered(1)

Spec == Init /\ [][Next]_vars

\* up to MaxConc invocations of Collect at once, pushing into the one channel
NextConc ==
    \/ Describe
    \/ Receive
    \/ \E p \in Procs :
          \/ \E q \in ConcQueryResults : CollectCall(p, q)
          \/ Send(p)
          \/ PanicStep(p)
          \/ Return(p)
          \/ Gathered(p)

SpecConc == Init /\ [][NextConc]_vars

(* ------------------------- reading the state -------------------------- *)

\* the samples of invocation p still in the channel, oldest first
InChannel(p) ==
    LET mine == SelectSeq(ch, LAMBDA e : e.inv = p)
    IN  [i \in 1..Len(mine) |-> mine[i].m]

\* everything invocation p has pushed so far, in the order pushed
Pushed(p) == received[p] \o InChannel(p)

Started(p) == pc[p] # "idle"
Finished(p) == pc[p] \in {"done", "panicked"}
Snapshot(p) == Deref(res[p].metrics)

\* the data source failed for the scrape of invocation p
DataSourceFailed(p) == Started(p) /\ Failed(Snapshot(p)) # {}
DataSourceSucceeded(p) == Started(p) /\ Failed(Snapshot(p)) = {}

IsHealth(m) == m.desc = c.collectorError
HealthSample(v) ==
    [panic |-> FALSE, desc |-> c.collectorError, valueType |-> "gauge",
     value |-> v, labelValues |-> <<"sip">>]

\* the samples of q that use descriptor d, in order
Using(q, d) == SelectSeq(q, LAMBDA m : m.desc = d)

(* ------------------------------ claims -------------------------------- *)

\* C1: a scrape whose data source failed pushes exactly one sample, the health
\* sample with value 1, and no domain sample.
C1_FailedScrapePushesOnlyHealthOne ==
    \A p \in Procs :
        (Finished(p) /\ DataSourceFailed(p)) => Pushed(p) = <<HealthSample(1)>>

\* C2: when at least one of the four queries fails, the data-source step returns
\* an error and Collect takes the failure path (health 1, no domain sample).
C2_AnyQueryFailureIsFatal ==
    \A p \in Procs :
        DataSourceFailed(p) =>
            /\ res[p].err # Nil
            /\ \A i \in 1..Len(Pushed(p)) : Pushed(p)[i] = HealthSample(1)
            /\ \A i \in 1..Len(todo[p]) : todo[p][i] = HealthSample(1)

\* C3: on a successful scrape the first sample pushed is the health sample with
\* value 0 and label "sip", every other sample of the invocation comes after it
\* and is no health sample, and a returned invocation pushed exactly one.
C3_HealthZeroFirstOnSuccess ==
    \A p \in Procs :
        DataSourceSucceeded(p) =>
            /\ Pushed(p) # <<>> => Pushed(p)[1] = HealthSample(0)
            /\ \A i \in 2..Len(Pushed(p)) : ~IsHealth(Pushed(p)[i])
            /\ pc[p] = "done" => Len(Using(Pushed(p), c.collectorError)) = 1

C3_Witness ==
    \E p \in Procs :
        /\ pc[p] = "done"
        /\ DataSourceSucceeded(p)
        /\ Len(Pushed(p)) > 1
        /\ Pushed(p)[1] = HealthSample(0)

\* C4: a successful scrape pushes, for every label-less descriptor that Describe
\* announces, exactly one sample, without labels.
C4_EveryDescribedScalarEmitted ==
    \A p \in Procs :
        (pc[p] = "done" /\ DataSourceSucceeded(p)) =>
            \A i \in 1..Len(DescribeSends(c)) :
                LET d == DescribeSends(c)[i]
                IN  d.variableLabels = <<>> =>
                        /\ Len(Using(Pushed(p), d)) = 1
                        /\ Using(Pushed(p), d)[1].labelValues = <<>>

OwnedDescriptors ==
    <<<<"current_peers", "Number of SIP peers", <<>>>>,
      <<"current_monitored_online", "Number of currently monitored online SIP", <<>>>>,
      <<"current_monitored_offline", "Number of currently monitored offline SIP", <<>>>>,
      <<"current_unmonitored_online", "Number of currently unmonitored online SIP", <<>>>>,
      <<"current_unmonitored_offline", "Number of currently unmonitored offline SIP", <<>>>>,
      <<"current_unknown", "Current number of unknown SIP", <<>>>>,
      <<"current_qualified", "Current number of qualified SIP", <<>>>>,
      <<"peer_status", "Status of individual SIP peers", <<"peer_name", "peer_status">>>>,
      <<"active_dialogs", "Number of active SIP dialogs", <<>>>>,
      <<"active_subscriptions", "Number of active SIP subscriptions", <<>>>>,
      <<"active_channels", "Number of active SIP channels", <<>>>>,
      <<"users", "Number of users", <<>>>>,
      <<"total_registrations", "Total number of SIP registrations", <<>>>>,
      <<"registered_count", "Number of successfully registered SIP accounts", <<>>>>,
      <<"unregistered_count", "Number of unregistered SIP accounts", <<>>>>,
      <<"registration_status", "Status of individual SIP registrations",
        <<"username", "state">>>>>>

ExpectedDescribe(prefix) ==
    [i \in 1..16 |->
        [fqName |-> BuildFQName(prefix, "sip", OwnedDescriptors[i][1]),
         help |-> OwnedDescriptors[i][2],
         variableLabels |-> OwnedDescriptors[i][3]]]

\* C6: whatever Describe and Collect calls came before, a Describe call pushes the
\* same sixteen owned descriptors in the same order, each once, and it runs no
\* query of the data source.
C6_DescribeStable ==
    /\ [](described # <<>> =>
            /\ \E prefix \in Prefixes : described = ExpectedDescribe(prefix)
            /\ Cardinality({described[i] : i \in 1..Len(described)}) = 16)
    /\ [][/\ described # <<>> => described' = described
          /\ Describe => cmdRuns' = cmdRuns]_vars

C6_Witness ==
    /\ described # <<>>
    /\ cmdRuns = 4 * MaxScrapes
    /\ pc[1] = "done"

\* the descriptors of c that are declared without label names
ScalarDescs ==
    {c.totalPeers, c.totalMonitoredOnline, c.totalMonitoredOffline,
     c.totalUnmonitoredOnline, c.totalUnmonitoredOffline, c.totalSipStatusUnknown,
     c.totalSipStatusQualified, c.dialogsActive, c.subscriptionsActive,
     c.channelsActive, c.users, c.totalRegistrations, c.onlineRegistrationsCount,
     c.offlineRegistrationsCount}

\* C7: every sample pushed carries as many label values as its descriptor declared
\* label names at construction: none for a scalar descriptor, two for peer_status
\* (peer_name, peer_status) and for registration_status (username, state); the
\* health sample carries one, the collector's name.
C7_LabelArity ==
    /\ \A d \in ScalarDescs : d.variableLabels = <<>>
    /\ c.peerStatus.variableLabels = <<"peer_name", "peer_status">>
    /\ c.registrationStatus.variableLabels = <<"username", "state">>
    /\ \A p \in Procs : \A i \in 1..Len(Pushed(p)) :
          LET m == Pushed(p)[i]
          IN  /\ Len(m.labelValues) = Len(m.desc.variableLabels)
              /\ m.desc \in ScalarDescs => Len(m.labelValues) = 0
              /\ m.desc = c.peerStatus => Len(m.labelValues) = 2
              /\ m.desc = c.registrationStatus => Len(m.labelValues) = 2
              /\ IsHealth(m) => m.labelValues = <<Name>>

C7_Witness ==
    \E p \in Procs :
        /\ pc[p] = "done"
        /\ Len(Using(Pushed(p), c.peerStatus)) > 0
        /\ Len(Using(Pushed(p), c.registrationStatus)) > 0
        /\ Len(Using(Pushed(p), c.users)) > 0
        /\ Len(Using(Pushed(p), c.collectorError)) > 0

\* C8: what a Collect call pushes depends only on the data-source result of that
\* call: health 1 alone when it failed, health 0 followed by the domain samples of
\* its snapshot when it succeeded, whatever the earlier scrapes were.
C8_ScrapeDependsOnOwnResultOnly ==
    \A p \in Procs :
        Finished(p) =>
            Pushed(p) = IF DataSourceFailed(p)
                        THEN <<HealthSample(1)>>
                        ELSE <<HealthSample(0)>> \o updateMetrics(c, Snapshot(p))

\* C9: once the health sample with value 0 is pushed, Collect pushes every domain
\* sample and returns, also for a snapshot with a nil fragment: no invocation
\* ends after a prefix of its samples.
C9_NoPartialEmission ==
    \A p \in Procs :
        (Pushed(p) # <<>> /\ Pushed(p)[1] = HealthSample(0)) => pc[p] # "panicked"

====
